---- MODULE Spec2Model ----
(***************************************************************************)
(* Node set functions of Mini-XML (mxml-set.c), as a state machine.        *)
(*                                                                         *)
(* The state is a supplied node and, possibly, its first child, the heap   *)
(* of the strings the nodes own, and the record of every invocation of a   *)
(* custom destructor.  Each action is one call of one setter.              *)
(***************************************************************************)
EXTENDS Integers, Sequences, FiniteSets, TLC

VARIABLES nodes, heap, destroyed, last

vars == <<nodes, heap, destroyed, last>>

(***************************************************************************)
(* Bounds of the model.                                                    *)
(***************************************************************************)
\* the number of strings the heap has room for
HeapSize == 2
\* the number of distinct custom data objects the caller has
MaxHandles == 1

(***************************************************************************)
(* Pointers are pairs <<segment, index>>: the null pointer, a node, a      *)
(* string of the heap, a string of the caller, a custom data object, a     *)
(* destructor function, a user data object.                                *)
(***************************************************************************)
NULL == <<"null", 0>>

NodePtr(i) == <<"node", i>>
HeapPtr(a) == <<"heap", a>>
StaticPtr(i) == <<"static", i>>
ObjPtr(h) == <<"obj", h>>
FnPtr(i) == <<"fn", i>>
UserPtr(i) == <<"user", i>>

MXML_ELEMENT == "MXML_ELEMENT"
MXML_INTEGER == "MXML_INTEGER"
MXML_OPAQUE == "MXML_OPAQUE"
MXML_TEXT == "MXML_TEXT"
MXML_CUSTOM == "MXML_CUSTOM"

\* "![CDATA[", the 8 characters mxmlSetCDATA compares with
CDATAMarker == <<"!", "[", "C", "D", "A", "T", "A", "[">>

\* "![CDATA[%s]]", the format mxmlSetCDATA renders
CDATAFormat == CDATAMarker \o <<"%", "s", "]", "]">>

\* the strings of the caller: "foo", "![CDATA[b", "%d-%s", "ab", "3-x"
StaticStrings ==
    << <<"f", "o", "o">>,
       CDATAMarker \o <<"b">>,
       <<"%", "d", "-", "%", "s">>,
       <<"a", "b">>,
       <<"3", "-", "x">> >>

StrFoo == StaticPtr(1)
StrMarked == StaticPtr(2)
FmtDS == StaticPtr(3)
FmtAB == StaticPtr(4)
Str3X == StaticPtr(5)

\* what a read of freed memory may give besides the bytes that were there
Junk == <<"?">>

\* the ways an undefined read resolves
UB == {"same", "junk"}

(***************************************************************************)
(* The C library: strncmp, free, strdup, and reading a string.             *)
(***************************************************************************)
Min(a, b) == IF a < b THEN a ELSE b

\* 0 when the first n characters agree (a shorter string ends at its NUL)
strncmp(s, t, n) ==
    IF SubSeq(s, 1, Min(n, Len(s))) = SubSeq(t, 1, Min(n, Len(t))) THEN 0 ELSE 1

\* a cell of the heap is [content, live]; free ends the life of the string
free(h, p) == [h EXCEPT ![p[2]] = [content |-> <<>>, live |-> FALSE]]

\* the address malloc gives: the first cell that holds no live string
malloc(h) ==
    LET room == {a \in DOMAIN h : ~h[a].live}
    IN IF room = {} THEN NULL
       ELSE HeapPtr(CHOOSE a \in room : \A b \in room : a <= b)

\* the heap after strdup of the characters s to the address malloc gives
strdup(h, s) ==
    IF malloc(h) = NULL THEN h
    ELSE [h EXCEPT ![malloc(h)[2]] = [content |-> s, live |-> TRUE]]

IsFreed(h, p) == p[1] = "heap" /\ ~h[p[2]].live

\* the characters at p: before is the heap when the call began, h the heap now
ReadStr(before, h, p, ub) ==
    IF p[1] = "static" THEN StaticStrings[p[2]]
    ELSE IF IsFreed(h, p)
         THEN (IF ub = "same" THEN before[p[2]].content ELSE Junk)
         ELSE h[p[2]].content

(***************************************************************************)
(* _mxml_strdupf: the printf-style rendering of a format.  An argument is  *)
(* [d |-> an integer] or [s |-> the characters of a string].               *)
(***************************************************************************)
Digits == <<"0", "1", "2", "3", "4", "5", "6", "7", "8", "9">>

RECURSIVE Itoa(_)
Itoa(n) ==
    IF n < 0 THEN <<"-">> \o Itoa(0 - n)
    ELSE IF n < 10 THEN <<Digits[n + 1]>>
    ELSE Itoa(n \div 10) \o <<Digits[(n % 10) + 1]>>

RECURSIVE _mxml_strdupf(_, _)
_mxml_strdupf(format, args) ==
    IF format = <<>> THEN <<>>
    ELSE IF Head(format) = "%" /\ Len(format) >= 2
    THEN LET rest == SubSeq(format, 3, Len(format))
         IN IF format[2] = "s"
            THEN Head(args).s \o _mxml_strdupf(rest, Tail(args))
            ELSE IF format[2] = "d"
            THEN Itoa(Head(args).d) \o _mxml_strdupf(rest, Tail(args))
            ELSE <<format[2]>> \o _mxml_strdupf(rest, args)
    ELSE <<Head(format)>> \o _mxml_strdupf(Tail(format), args)

\* What _mxml_strdupf(format, ap) reads as its arguments: the va_list object
\* itself stands where the arguments should, so each conversion reads bytes
\* that are not the argument.
VaListAsArgs(args, ub) ==
    IF ub = "same" THEN args
    ELSE [i \in 1..Len(args) |->
            IF "d" \in DOMAIN args[i] THEN [d |-> 0] ELSE [s |-> Junk]]

(***************************************************************************)
(* Nodes.  m is the memory: [nodes, heap, destroyed].                      *)
(***************************************************************************)
At(m, node) == m.nodes[node[2]]

Node(type, name, opaque, string, child) ==
    [type |-> type, name |-> name, opaque |-> opaque, integer |-> 0,
     string |-> string, whitespace |-> 0,
     data |-> NULL, destroy |-> NULL, user_data |-> NULL, child |-> child]

\* the result of a call: its return value, the memory it leaves, the node it
\* acted on, the pointers it freed, whether it read freed memory, and the
\* destructor calls it made
Result(ret, ns, h, d, target, freed, uaf, calls) ==
    [ret |-> ret, nodes |-> ns, heap |-> h, destroyed |-> d,
     target |-> target, freed |-> freed, uaf |-> uaf, calls |-> calls]

Failure(m, target) ==
    Result(-1, m.nodes, m.heap, m.destroyed, target, <<>>, FALSE, <<>>)

(***************************************************************************)
(* The setters.  Each is the C function of the same name: it returns the   *)
(* Result of the call made on memory m.                                    *)
(***************************************************************************)
\* mxmlSetCDATA with strdup(data) for _mxml_strdupf("![CDATA[%s]]", data)
mxmlSetCDATA_NoWrapper(m, node, data, ub) ==
    LET n == IF node # NULL /\ At(m, node).type = MXML_ELEMENT
                /\ strncmp(ReadStr(m.heap, m.heap, At(m, node).name, ub),
                           CDATAMarker, 8) # 0
                /\ At(m, node).child # NULL
                /\ At(m, At(m, node).child).type = MXML_ELEMENT
                /\ strncmp(ReadStr(m.heap, m.heap,
                                   At(m, At(m, node).child).name, ub),
                           CDATAMarker, 8) = 0
             THEN At(m, node).child
             ELSE node
    IN IF n = NULL \/ At(m, n).type # MXML_ELEMENT \/ data = NULL
          \/ strncmp(ReadStr(m.heap, m.heap, At(m, n).name, ub),
                     CDATAMarker, 8) # 0
       THEN Failure(m, n)
       ELSE LET h1 == IF At(m, n).name # NULL
                      THEN free(m.heap, At(m, n).name) ELSE m.heap
                h2 == strdup(h1, ReadStr(m.heap, h1, data, ub))
            IN Result(0, [m.nodes EXCEPT ![n[2]].name = malloc(h1)], h2,
                      m.destroyed, n,
                      IF At(m, n).name # NULL THEN <<At(m, n).name>> ELSE <<>>,
                      IsFreed(h1, data), <<>>)

mxmlSetCDATA(m, node, data, ub) ==
    LET n == IF node # NULL /\ At(m, node).type = MXML_ELEMENT
                /\ strncmp(ReadStr(m.heap, m.heap, At(m, node).name, ub),
                           CDATAMarker, 8) # 0
                /\ At(m, node).child # NULL
                /\ At(m, At(m, node).child).type = MXML_ELEMENT
                /\ strncmp(ReadStr(m.heap, m.heap,
                                   At(m, At(m, node).child).name, ub),
                           CDATAMarker, 8) = 0
             THEN At(m, node).child
             ELSE node
    IN IF n = NULL \/ At(m, n).type # MXML_ELEMENT \/ data = NULL
          \/ strncmp(ReadStr(m.heap, m.heap, At(m, n).name, ub),
                     CDATAMarker, 8) # 0
       THEN Failure(m, n)
       ELSE LET h1 == IF At(m, n).name # NULL
                      THEN free(m.heap, At(m, n).name) ELSE m.heap
                h2 == strdup(h1, _mxml_strdupf(CDATAFormat,
                                 <<[s |-> ReadStr(m.heap, h1, data, ub)]>>))
            IN Result(0, [m.nodes EXCEPT ![n[2]].name = malloc(h1)], h2,
                      m.destroyed, n,
                      IF At(m, n).name # NULL THEN <<At(m, n).name>> ELSE <<>>,
                      IsFreed(h1, data), <<>>)

\* mxmlSetCustom with the new fields stored before the destructor is called
mxmlSetCustom_InstallsFirst(m, node, data, destroy) ==
    LET n == IF node # NULL /\ At(m, node).type = MXML_ELEMENT
                /\ At(m, node).child # NULL
                /\ At(m, At(m, node).child).type = MXML_CUSTOM
             THEN At(m, node).child
             ELSE node
    IN IF n = NULL \/ At(m, n).type # MXML_CUSTOM
       THEN Failure(m, n)
       ELSE LET called == data # NULL /\ destroy # NULL
                calls == IF called
                         THEN <<[fn |-> destroy, arg |-> data,
                                 seen_data |-> data, seen_destroy |-> destroy]>>
                         ELSE <<>>
                d1 == IF called
                      THEN [m.destroyed EXCEPT ![data[2]] = @ + 1]
                      ELSE m.destroyed
            IN Result(0,
                      [m.nodes EXCEPT ![n[2]].data = data,
                                      ![n[2]].destroy = destroy],
                      m.heap, d1, n, <<>>, FALSE, calls)

mxmlSetCustom(m, node, data, destroy) ==
    LET n == IF node # NULL /\ At(m, node).type = MXML_ELEMENT
                /\ At(m, node).child # NULL
                /\ At(m, At(m, node).child).type = MXML_CUSTOM
             THEN At(m, node).child
             ELSE node
    IN IF n = NULL \/ At(m, n).type # MXML_CUSTOM
       THEN Failure(m, n)
       ELSE LET old == At(m, n)
                called == old.data # NULL /\ old.destroy # NULL
                \* the destructor runs while the node still holds the old fields
                calls == IF called
                         THEN <<[fn |-> old.destroy, arg |-> old.data,
                                 seen_data |-> old.data,
                                 seen_destroy |-> old.destroy]>>
                         ELSE <<>>
                d1 == IF called
                      THEN [m.destroyed EXCEPT ![old.data[2]] = @ + 1]
                      ELSE m.destroyed
            IN Result(0,
                      [m.nodes EXCEPT ![n[2]].data = data,
                                      ![n[2]].destroy = destroy],
                      m.heap, d1, n, <<>>, FALSE, calls)

mxmlSetElement(m, node, name, ub) ==
    IF node = NULL \/ At(m, node).type # MXML_ELEMENT \/ name = NULL
    THEN Failure(m, node)
    ELSE LET h1 == IF At(m, node).name # NULL
                   THEN free(m.heap, At(m, node).name) ELSE m.heap
             h2 == strdup(h1, ReadStr(m.heap, h1, name, ub))
         IN Result(0, [m.nodes EXCEPT ![node[2]].name = malloc(h1)], h2,
                   m.destroyed, node,
                   IF At(m, node).name # NULL THEN <<At(m, node).name>> ELSE <<>>,
                   IsFreed(h1, name), <<>>)

\* mxmlSetInteger with the test of the element's name that mxmlSetCDATA makes
mxmlSetInteger_ChecksName(m, node, integer) ==
    LET n == IF node # NULL /\ At(m, node).type = MXML_ELEMENT
                /\ strncmp(ReadStr(m.heap, m.heap, At(m, node).name, "same"),
                           CDATAMarker, 8) # 0
                /\ At(m, node).child # NULL
                /\ At(m, At(m, node).child).type = MXML_INTEGER
             THEN At(m, node).child
             ELSE node
    IN IF n = NULL \/ At(m, n).type # MXML_INTEGER
       THEN Failure(m, n)
       ELSE Result(0, [m.nodes EXCEPT ![n[2]].integer = integer],
                   m.heap, m.destroyed, n, <<>>, FALSE, <<>>)

mxmlSetInteger(m, node, integer) ==
    LET n == IF node # NULL /\ At(m, node).type = MXML_ELEMENT
                /\ At(m, node).child # NULL
                /\ At(m, At(m, node).child).type = MXML_INTEGER
             THEN At(m, node).child
             ELSE node
    IN IF n = NULL \/ At(m, n).type # MXML_INTEGER
       THEN Failure(m, n)
       ELSE Result(0, [m.nodes EXCEPT ![n[2]].integer = integer],
                   m.heap, m.destroyed, n, <<>>, FALSE, <<>>)

\* mxmlSetOpaque with the old string freed before the argument is tested
mxmlSetOpaque_FreesBeforeCheck(m, node, opaque, ub) ==
    LET n == IF node # NULL /\ At(m, node).type = MXML_ELEMENT
                /\ At(m, node).child # NULL
                /\ At(m, At(m, node).child).type = MXML_OPAQUE
             THEN At(m, node).child
             ELSE node
    IN IF n = NULL \/ At(m, n).type # MXML_OPAQUE
       THEN Failure(m, n)
       ELSE LET h1 == IF At(m, n).opaque # NULL
                      THEN free(m.heap, At(m, n).opaque) ELSE m.heap
                freed == IF At(m, n).opaque # NULL
                         THEN <<At(m, n).opaque>> ELSE <<>>
            IN IF opaque = NULL
               THEN Result(-1, m.nodes, h1, m.destroyed, n, freed, FALSE, <<>>)
               ELSE Result(0,
                      [m.nodes EXCEPT ![n[2]].opaque = malloc(h1)],
                      strdup(h1, ReadStr(m.heap, h1, opaque, ub)),
                      m.destroyed, n, freed, IsFreed(h1, opaque), <<>>)

mxmlSetOpaque(m, node, opaque, ub) ==
    LET n == IF node # NULL /\ At(m, node).type = MXML_ELEMENT
                /\ At(m, node).child # NULL
                /\ At(m, At(m, node).child).type = MXML_OPAQUE
             THEN At(m, node).child
             ELSE node
    IN IF n = NULL \/ At(m, n).type # MXML_OPAQUE \/ opaque = NULL
       THEN Failure(m, n)
       ELSE LET h1 == IF At(m, n).opaque # NULL
                      THEN free(m.heap, At(m, n).opaque) ELSE m.heap
                h2 == strdup(h1, ReadStr(m.heap, h1, opaque, ub))
            IN Result(0, [m.nodes EXCEPT ![n[2]].opaque = malloc(h1)], h2,
                      m.destroyed, n,
                      IF At(m, n).opaque # NULL THEN <<At(m, n).opaque>> ELSE <<>>,
                      IsFreed(h1, opaque), <<>>)

mxmlSetOpaquef(m, node, format, args, ub) ==
    LET n == IF node # NULL /\ At(m, node).type = MXML_ELEMENT
                /\ At(m, node).child # NULL
                /\ At(m, At(m, node).child).type = MXML_OPAQUE
             THEN At(m, node).child
             ELSE node
    IN IF n = NULL \/ At(m, n).type # MXML_OPAQUE \/ format = NULL
       THEN Failure(m, n)
       ELSE LET h1 == IF At(m, n).opaque # NULL
                      THEN free(m.heap, At(m, n).opaque) ELSE m.heap
                h2 == strdup(h1, _mxml_strdupf(ReadStr(m.heap, h1, format, ub),
                                               VaListAsArgs(args, ub)))
            IN Result(0, [m.nodes EXCEPT ![n[2]].opaque = malloc(h1)], h2,
                      m.destroyed, n,
                      IF At(m, n).opaque # NULL THEN <<At(m, n).opaque>> ELSE <<>>,
                      IsFreed(h1, format), <<>>)

\* mxmlSetText without the descent to the first child
mxmlSetText_NoDescent(m, node, whitespace, string, ub) ==
    LET n == node
    IN IF n = NULL \/ At(m, n).type # MXML_TEXT \/ string = NULL
       THEN Failure(m, n)
       ELSE LET h1 == IF At(m, n).string # NULL
                      THEN free(m.heap, At(m, n).string) ELSE m.heap
                h2 == strdup(h1, ReadStr(m.heap, h1, string, ub))
            IN Result(0,
                      [m.nodes EXCEPT ![n[2]].whitespace = whitespace,
                                      ![n[2]].string = malloc(h1)],
                      h2, m.destroyed, n,
                      IF At(m, n).string # NULL THEN <<At(m, n).string>> ELSE <<>>,
                      IsFreed(h1, string), <<>>)

mxmlSetText(m, node, whitespace, string, ub) ==
    LET n == IF node # NULL /\ At(m, node).type = MXML_ELEMENT
                /\ At(m, node).child # NULL
                /\ At(m, At(m, node).child).type = MXML_TEXT
             THEN At(m, node).child
             ELSE node
    IN IF n = NULL \/ At(m, n).type # MXML_TEXT \/ string = NULL
       THEN Failure(m, n)
       ELSE LET h1 == IF At(m, n).string # NULL
                      THEN free(m.heap, At(m, n).string) ELSE m.heap
                h2 == strdup(h1, ReadStr(m.heap, h1, string, ub))
            IN Result(0,
                      [m.nodes EXCEPT ![n[2]].whitespace = whitespace,
                                      ![n[2]].string = malloc(h1)],
                      h2, m.destroyed, n,
                      IF At(m, n).string # NULL THEN <<At(m, n).string>> ELSE <<>>,
                      IsFreed(h1, string), <<>>)

\* mxmlSetTextf with the whitespace flag stored before the format is tested
mxmlSetTextf_FlagFirst(m, node, whitespace, format, args, ub) ==
    LET n == IF node # NULL /\ At(m, node).type = MXML_ELEMENT
                /\ At(m, node).child # NULL
                /\ At(m, At(m, node).child).type = MXML_TEXT
             THEN At(m, node).child
             ELSE node
    IN IF n = NULL \/ At(m, n).type # MXML_TEXT
       THEN Failure(m, n)
       ELSE IF format = NULL
       THEN Result(-1, [m.nodes EXCEPT ![n[2]].whitespace = whitespace],
                   m.heap, m.destroyed, n, <<>>, FALSE, <<>>)
       ELSE LET h1 == IF At(m, n).string # NULL
                      THEN free(m.heap, At(m, n).string) ELSE m.heap
                h2 == strdup(h1, _mxml_strdupf(ReadStr(m.heap, h1, format, ub),
                                               VaListAsArgs(args, ub)))
            IN Result(0,
                      [m.nodes EXCEPT ![n[2]].whitespace = whitespace,
                                      ![n[2]].string = malloc(h1)],
                      h2, m.destroyed, n,
                      IF At(m, n).string # NULL THEN <<At(m, n).string>> ELSE <<>>,
                      IsFreed(h1, format), <<>>)

mxmlSetTextf(m, node, whitespace, format, args, ub) ==
    LET n == IF node # NULL /\ At(m, node).type = MXML_ELEMENT
                /\ At(m, node).child # NULL
                /\ At(m, At(m, node).child).type = MXML_TEXT
             THEN At(m, node).child
             ELSE node
    IN IF n = NULL \/ At(m, n).type # MXML_TEXT \/ format = NULL
       THEN Failure(m, n)
       ELSE LET h1 == IF At(m, n).string # NULL
                      THEN free(m.heap, At(m, n).string) ELSE m.heap
                h2 == strdup(h1, _mxml_strdupf(ReadStr(m.heap, h1, format, ub),
                                               VaListAsArgs(args, ub)))
            IN Result(0,
                      [m.nodes EXCEPT ![n[2]].whitespace = whitespace,
                                      ![n[2]].string = malloc(h1)],
                      h2, m.destroyed, n,
                      IF At(m, n).string # NULL THEN <<At(m, n).string>> ELSE <<>>,
                      IsFreed(h1, format), <<>>)

\* mxmlSetUserData with the descent to the first child the other setters make
mxmlSetUserData_Descends(m, node, data) ==
    LET n == IF node # NULL /\ At(m, node).type = MXML_ELEMENT
                /\ At(m, node).child # NULL
             THEN At(m, node).child
             ELSE node
    IN IF n = NULL
       THEN Failure(m, n)
       ELSE Result(0, [m.nodes EXCEPT ![n[2]].user_data = data],
                   m.heap, m.destroyed, n, <<>>, FALSE, <<>>)

mxmlSetUserData(m, node, data) ==
    IF node = NULL
    THEN Failure(m, node)
    ELSE Result(0, [m.nodes EXCEPT ![node[2]].user_data = data],
                m.heap, m.destroyed, node, <<>>, FALSE, <<>>)

(***************************************************************************)
(* The state after construction: a node of any type, which, when it is an  *)
(* element, may have a first child of any type.  The tree functions give   *)
(* an element a name; an opaque or text node may still be without string.  *)
(***************************************************************************)
PlainName == <<"e">>
MarkedName == CDATAMarker \o <<"]", "]">>

\* the nodes the tree functions make: [type, str], str the characters of the
\* string the node owns, or NULL
NewNodes ==
    {[type |-> MXML_ELEMENT, str |-> PlainName],
     [type |-> MXML_ELEMENT, str |-> MarkedName],
     [type |-> MXML_INTEGER, str |-> NULL],
     [type |-> MXML_CUSTOM, str |-> NULL],
     [type |-> MXML_OPAQUE, str |-> NULL],
     [type |-> MXML_OPAQUE, str |-> <<"o">>],
     [type |-> MXML_TEXT, str |-> NULL],
     [type |-> MXML_TEXT, str |-> <<"t">>]}

\* the node made from new with its string at p (NULL when it has none)
NewNode(new, p, child) ==
    Node(new.type,
         IF new.type = MXML_ELEMENT THEN p ELSE NULL,
         IF new.type = MXML_OPAQUE THEN p ELSE NULL,
         IF new.type = MXML_TEXT THEN p ELSE NULL,
         child)

EmptyHeap == [a \in 1..HeapSize |-> [content |-> <<>>, live |-> FALSE]]

NewLeaf(new) ==
    [nodes |-> <<NewNode(new, IF new.str = NULL THEN NULL ELSE HeapPtr(1), NULL)>>,
     heap |-> IF new.str = NULL THEN EmptyHeap ELSE strdup(EmptyHeap, new.str)]

NewParent(new, c) ==
    LET h1 == strdup(EmptyHeap, new.str)
        h2 == IF c.str = NULL THEN h1 ELSE strdup(h1, c.str)
    IN [nodes |-> <<NewNode(new, HeapPtr(1), NodePtr(2)),
                    NewNode(c, IF c.str = NULL THEN NULL ELSE HeapPtr(2), NULL)>>,
        heap |-> h2]

Trees ==
    {NewLeaf(new) : new \in NewNodes}
    \cup {NewParent(new, c) : new \in {x \in NewNodes : x.type = MXML_ELEMENT},
                              c \in NewNodes}

NoCall == [op |-> "none", node |-> NULL, ret |-> 0, target |-> NULL]

Init ==
    \E t \in Trees :
        /\ nodes = t.nodes
        /\ heap = t.heap
        /\ destroyed = [h \in 1..MaxHandles |-> 0]
        /\ last = NoCall

(***************************************************************************)
(* The calls.  The caller passes the null pointer, a node of the tree, its *)
(* own strings, or a pointer it read from a node.                          *)
(***************************************************************************)
Memory == [nodes |-> nodes, heap |-> heap, destroyed |-> destroyed]

NodeArgs == {NULL} \cup {NodePtr(i) : i \in DOMAIN nodes}

\* the string arguments: the null pointer, a string of the caller, or a
\* pointer the caller read from a node of the tree with the matching getter
NameArgs == {NULL, StrFoo, StrMarked} \cup {nodes[i].name : i \in DOMAIN nodes}

OpaqueArgs == {NULL, StrFoo} \cup {nodes[i].opaque : i \in DOMAIN nodes}

StringArgs == {NULL, StrFoo} \cup {nodes[i].string : i \in DOMAIN nodes}

CDATAArgs == {NULL, StrFoo}

FormatArgs == {NULL, FmtDS, FmtAB}

\* the arguments the caller passes after a format
ArgsFor(format) ==
    IF format = FmtDS THEN <<[d |-> 3], [s |-> <<"x">>]>> ELSE <<>>

IntArgs == {0, 7}

WhitespaceArgs == {0, 1}

HeldData == {nodes[i].data : i \in DOMAIN nodes}

\* a custom data object: one a node holds and no destructor has had, or the
\* first that no node holds and no destructor has had
DataArgs ==
    LET unused == {h \in 1..MaxHandles :
                      destroyed[h] = 0 /\ ObjPtr(h) \notin HeldData}
    IN {NULL}
       \cup {p \in HeldData : p # NULL /\ destroyed[p[2]] = 0}
       \cup {ObjPtr(h) : h \in {x \in unused : \A y \in unused : x <= y}}

DestroyArgs == {NULL, FnPtr(1), FnPtr(2)}

\* the user data the caller attaches
UserArgs == {NULL, UserPtr(1)}

\* the undefined reads a call with these arguments can make
UBOf(aliases) == IF aliases THEN UB ELSE {"same"}

\* the call op(node, ...) returned r
Return(op, node, r) ==
    /\ nodes' = r.nodes
    /\ heap' = r.heap
    /\ destroyed' = r.destroyed
    /\ last' = [op |-> op, node |-> node, ret |-> r.ret, target |-> r.target]

SetCDATA ==
    \E node \in NodeArgs, data \in CDATAArgs :
        \E ub \in UBOf(data[1] = "heap") :
            Return("mxmlSetCDATA", node, mxmlSetCDATA(Memory, node, data, ub))

SetCustom ==
    \E node \in NodeArgs, data \in DataArgs, destroy \in DestroyArgs :
        Return("mxmlSetCustom", node, mxmlSetCustom(Memory, node, data, destroy))

SetElement ==
    \E node \in NodeArgs, name \in NameArgs :
        \E ub \in UBOf(name[1] = "heap") :
            Return("mxmlSetElement", node, mxmlSetElement(Memory, node, name, ub))

SetInteger ==
    \E node \in NodeArgs, integer \in IntArgs :
        Return("mxmlSetInteger", node, mxmlSetInteger(Memory, node, integer))

SetOpaque ==
    \E node \in NodeArgs, opaque \in OpaqueArgs :
        \E ub \in UBOf(opaque[1] = "heap") :
            Return("mxmlSetOpaque", node, mxmlSetOpaque(Memory, node, opaque, ub))

SetOpaquef ==
    \E node \in NodeArgs, format \in FormatArgs :
        \E ub \in UBOf(ArgsFor(format) # <<>>) :
            Return("mxmlSetOpaquef", node,
                   mxmlSetOpaquef(Memory, node, format, ArgsFor(format), ub))

SetText ==
    \E node \in NodeArgs, whitespace \in WhitespaceArgs, string \in StringArgs :
        \E ub \in UBOf(string[1] = "heap") :
            Return("mxmlSetText", node,
                   mxmlSetText(Memory, node, whitespace, string, ub))

SetTextf ==
    \E node \in NodeArgs, whitespace \in WhitespaceArgs, format \in FormatArgs :
        \E ub \in UBOf(ArgsFor(format) # <<>>) :
            Return("mxmlSetTextf", node,
                   mxmlSetTextf(Memory, node, whitespace, format,
                                ArgsFor(format), ub))

\* a caller that attaches no user data to the nodes
SetUserData ==
    \E node \in NodeArgs :
        Return("mxmlSetUserData", node, mxmlSetUserData(Memory, node, NULL))

\* a caller that does
SetUserDataTo ==
    \E node \in NodeArgs, data \in UserArgs :
        Return("mxmlSetUserData", node, mxmlSetUserData(Memory, node, data))

Next ==
    \/ SetCDATA
    \/ SetCustom
    \/ SetElement
    \/ SetInteger
    \/ SetOpaque
    \/ SetOpaquef
    \/ SetText
    \/ SetTextf
    \/ SetUserData

Spec == Init /\ [][Next]_vars

\* the same calls by a caller that attaches user data to the nodes
NextWithUserData ==
    \/ SetCDATA
    \/ SetCustom
    \/ SetElement
    \/ SetInteger
    \/ SetOpaque
    \/ SetOpaquef
    \/ SetText
    \/ SetTextf
    \/ SetUserDataTo

SpecWithUserData == Init /\ [][NextWithUserData]_vars

(***************************************************************************)
(* What the properties below read.                                         *)
(***************************************************************************)
\* the memory a call leaves
After(r) == [nodes |-> r.nodes, heap |-> r.heap, destroyed |-> r.destroyed]

\* the characters of the string at p in memory m
Chars(m, p) == IF p[1] = "static" THEN StaticStrings[p[2]] ELSE m.heap[p[2]].content

\* node n of memory m is an element whose name starts with the CDATA marker
IsCDATA(m, n) ==
    /\ At(m, n).type = MXML_ELEMENT
    /\ Len(Chars(m, At(m, n).name)) >= 8
    /\ SubSeq(Chars(m, At(m, n).name), 1, 8) = CDATAMarker

\* the strings of the caller among the arguments
OwnStrings(args) == {p \in args : p[1] = "static"}

\* a call that fails leaves the memory as it was and releases nothing
Untouched(r) ==
    /\ r.nodes = nodes
    /\ r.heap = heap
    /\ r.destroyed = destroyed
    /\ r.freed = <<>>
    /\ r.calls = <<>>

\* the results of every call of every setter in this state
StringCalls ==
    {mxmlSetCDATA(Memory, node, data, ub) :
        node \in NodeArgs, data \in CDATAArgs, ub \in UB}
    \cup {mxmlSetElement(Memory, node, name, ub) :
        node \in NodeArgs, name \in NameArgs, ub \in UB}
    \cup {mxmlSetOpaque(Memory, node, opaque, ub) :
        node \in NodeArgs, opaque \in OpaqueArgs, ub \in UB}
    \cup {mxmlSetText(Memory, node, whitespace, string, ub) :
        node \in NodeArgs, whitespace \in WhitespaceArgs,
        string \in StringArgs, ub \in UB}

FormatCalls ==
    {mxmlSetOpaquef(Memory, node, format, ArgsFor(format), ub) :
        node \in NodeArgs, format \in FormatArgs, ub \in UB}
    \cup {mxmlSetTextf(Memory, node, whitespace, format, ArgsFor(format), ub) :
        node \in NodeArgs, whitespace \in WhitespaceArgs,
        format \in FormatArgs, ub \in UB}

CustomCalls ==
    {mxmlSetCustom(Memory, node, data, destroy) :
        node \in NodeArgs, data \in DataArgs, destroy \in DestroyArgs}

OtherCalls ==
    {mxmlSetInteger(Memory, node, integer) :
        node \in NodeArgs, integer \in IntArgs}
    \cup {mxmlSetUserData(Memory, node, data) :
        node \in NodeArgs, data \in UserArgs}

AllCalls == StringCalls \cup FormatCalls \cup CustomCalls \cup OtherCalls

(***************************************************************************)
(* C1                                                                      *)
(***************************************************************************)
\* C1: whenever a call of any of the nine setters returns -1 (null node,
\* node of the wrong kind after the descent, null string or format), every
\* field of the supplied node and of its first child is as before the call,
\* nothing is freed and no destructor is invoked.
C1_NoOpOnFailure == \A r \in AllCalls : r.ret = -1 => Untouched(r)

\* mxmlSetOpaque has just failed on an element whose first child is a text
\* node, which holds the string and the flag an earlier call gave it
C1_Witness ==
    /\ last.op = "mxmlSetOpaque"
    /\ last.ret = -1
    /\ last.node = NodePtr(1)
    /\ last.target = NodePtr(1)
    /\ nodes[1].type = MXML_ELEMENT
    /\ nodes[1].child = NodePtr(2)
    /\ nodes[2].type = MXML_TEXT
    /\ nodes[2].string # NULL
    /\ nodes[2].whitespace = 1

(***************************************************************************)
(* C2                                                                      *)
(***************************************************************************)
\* the payload the setter that returned r replaced: the string or the custom
\* data the target held before the call (NULL when it held none)
Replaced(r) ==
    LET old == At(Memory, r.target)
    IN IF old.type = MXML_ELEMENT THEN old.name
       ELSE IF old.type = MXML_OPAQUE THEN old.opaque
       ELSE IF old.type = MXML_TEXT THEN old.string
       ELSE old.data

\* C2: over any sequence of setter calls, a string or a custom handle (one
\* installed with a destructor) that a successful call replaces is released
\* exactly once, by free or by the destructor it was installed with; the
\* payload a node holds has been released zero times; and a successful call
\* on a node whose old payload is null releases nothing.
C2_ExactlyOnceRelease ==
    /\ \A h \in DOMAIN destroyed : destroyed[h] <= 1
    /\ \A i \in DOMAIN nodes :
          /\ nodes[i].data # NULL => destroyed[nodes[i].data[2]] = 0
          /\ \A p \in {nodes[i].name, nodes[i].opaque, nodes[i].string} :
                p # NULL => heap[p[2]].live
    /\ \A r \in StringCalls \cup FormatCalls :
          r.ret = 0 =>
             /\ r.calls = <<>>
             /\ r.freed = IF Replaced(r) = NULL THEN <<>> ELSE <<Replaced(r)>>
    /\ \A r \in CustomCalls :
          r.ret = 0 =>
             /\ r.freed = <<>>
             /\ Replaced(r) = NULL => r.calls = <<>>
             /\ (Replaced(r) # NULL /\ At(Memory, r.target).destroy # NULL) =>
                   /\ Len(r.calls) = 1
                   /\ r.calls[1].fn = At(Memory, r.target).destroy
                   /\ r.calls[1].arg = Replaced(r)

(***************************************************************************)
(* C3                                                                      *)
(***************************************************************************)
\* the one destructor call the claim describes for the call that returned r
OldDestructorCall(r) ==
    LET old == At(Memory, r.target)
    IN <<[fn |-> old.destroy, arg |-> old.data,
          seen_data |-> old.data, seen_destroy |-> old.destroy]>>

\* C3 as stated: whenever mxmlSetCustom succeeds on a custom node whose
\* payload was installed with a destructor, for any stored handle, the null
\* handle included, the stored destructor is invoked exactly once with the
\* stored handle, before the node's fields take the new values.
C3_AsStated ==
    \A node \in NodeArgs, data \in DataArgs, destroy \in DestroyArgs :
        LET r == mxmlSetCustom(Memory, node, data, destroy)
        IN (r.ret = 0 /\ At(Memory, r.target).destroy # NULL) =>
              r.calls = OldDestructorCall(r)

\* C3, amended: whenever mxmlSetCustom succeeds on a custom node that holds a
\* non-null handle and a destructor, that destructor is invoked exactly once,
\* with the handle, while the node still holds the old handle and destructor;
\* the node then holds the new handle and the new destructor.
C3_DestructorInvocation ==
    \A node \in NodeArgs, data \in DataArgs, destroy \in DestroyArgs :
        LET r == mxmlSetCustom(Memory, node, data, destroy)
            old == At(Memory, r.target)
        IN (r.ret = 0 /\ old.data # NULL /\ old.destroy # NULL) =>
              /\ r.calls = OldDestructorCall(r)
              /\ r.destroyed[old.data[2]] = destroyed[old.data[2]] + 1
              /\ At(After(r), r.target).data = data
              /\ At(After(r), r.target).destroy = destroy

\* mxmlSetCustom has just replaced a handle that had a destructor, which ran
C3_Witness ==
    /\ last.op = "mxmlSetCustom"
    /\ last.ret = 0
    /\ At(Memory, last.target).data = NULL
    /\ \E h \in DOMAIN destroyed : destroyed[h] = 1

(***************************************************************************)
(* C4                                                                      *)
(***************************************************************************)
\* node 1 is an element whose first child is of the given type
Wraps(type) ==
    /\ nodes[1].type = MXML_ELEMENT
    /\ nodes[1].child # NULL
    /\ At(Memory, nodes[1].child).type = type

\* the two calls did the same: same return value, same memory after (the
\* child's payload included), and the wrapping element as it was
SameAsOnChild(viaParent, onChild) ==
    /\ viaParent = onChild
    /\ viaParent.nodes[1] = nodes[1]

\* C4: mxmlSetOpaque, mxmlSetInteger, mxmlSetText and mxmlSetCustom called on
\* an element whose first child has the setter's kind return what the call on
\* that child returns and leave the same child payload, and the element's own
\* kind, name, user data and child link are unchanged.
C4_TraversalEquivalence ==
    /\ Wraps(MXML_OPAQUE) =>
          \A opaque \in OpaqueArgs, ub \in UB :
              SameAsOnChild(mxmlSetOpaque(Memory, NodePtr(1), opaque, ub),
                            mxmlSetOpaque(Memory, nodes[1].child, opaque, ub))
    /\ Wraps(MXML_INTEGER) =>
          \A integer \in IntArgs :
              SameAsOnChild(mxmlSetInteger(Memory, NodePtr(1), integer),
                            mxmlSetInteger(Memory, nodes[1].child, integer))
    /\ Wraps(MXML_TEXT) =>
          \A whitespace \in WhitespaceArgs, string \in StringArgs, ub \in UB :
              SameAsOnChild(
                  mxmlSetText(Memory, NodePtr(1), whitespace, string, ub),
                  mxmlSetText(Memory, nodes[1].child, whitespace, string, ub))
    /\ Wraps(MXML_CUSTOM) =>
          \A data \in DataArgs, destroy \in DestroyArgs :
              SameAsOnChild(
                  mxmlSetCustom(Memory, NodePtr(1), data, destroy),
                  mxmlSetCustom(Memory, nodes[1].child, data, destroy))

\* mxmlSetOpaque, called on the wrapping element, has just set the child
C4_Witness ==
    /\ last.op = "mxmlSetOpaque"
    /\ last.ret = 0
    /\ last.node = NodePtr(1)
    /\ last.target = NodePtr(2)
    /\ Chars(Memory, nodes[2].opaque) = StaticStrings[1]

(***************************************************************************)
(* C5                                                                      *)
(***************************************************************************)
\* "![CDATA[" + d + "]]"
Wrapped(d) == CDATAMarker \o d \o <<"]", "]">>

StartsWithMarker(chars) == Len(chars) >= 8 /\ SubSeq(chars, 1, 8) = CDATAMarker

\* the first child of node n of memory m is an element with a CDATA name
HasCDATAChild(m, n) ==
    At(m, n).child # NULL /\ IsCDATA(m, At(m, n).child)

\* mxmlSetCDATA(node, d) with a string d of the caller, then mxmlSetElement
\* with a string n of the caller on the node the first call set, then
\* mxmlSetCDATA again: failsAfter(e, n) says when that last call must fail
RoundTrip(failsAfter(_, _, _)) ==
    \A node \in NodeArgs, d \in OwnStrings(CDATAArgs) :
        LET c == mxmlSetCDATA(Memory, node, d, "same")
        IN c.ret = 0 =>
              /\ Chars(After(c), At(After(c), c.target).name)
                    = Wrapped(Chars(Memory, d))
              /\ mxmlSetCDATA(After(c), c.target, d, "same").ret = 0
              /\ \A n \in OwnStrings(NameArgs) :
                    LET e == mxmlSetElement(After(c), c.target, n, "same")
                    IN /\ e.ret = 0
                       /\ Chars(After(e), At(After(e), c.target).name)
                             = Chars(Memory, n)
                       /\ failsAfter(After(e), c.target, n) <=>
                             mxmlSetCDATA(After(e), c.target, d, "same").ret = -1

FailsUnlessMarked(m, target, n) == ~StartsWithMarker(Chars(m, n))

FailsUnlessMarkedOrWrapping(m, target, n) ==
    ~StartsWithMarker(Chars(m, n)) /\ ~HasCDATAChild(m, target)

Prerendered(format) == IF format = FmtDS THEN Str3X ELSE format

\* the two calls returned the same and left the same characters and the same
\* whitespace flag in their target
SameText(f, t) ==
    /\ f.ret = t.ret
    /\ f.target = t.target
    /\ f.ret = 0 =>
          /\ Chars(After(f), At(After(f), f.target).string)
                = Chars(After(t), At(After(t), t.target).string)
          /\ At(After(f), f.target).whitespace
                = At(After(t), t.target).whitespace

SameOpaque(f, t) ==
    /\ f.ret = t.ret
    /\ f.target = t.target
    /\ f.ret = 0 =>
          Chars(After(f), At(After(f), f.target).opaque)
             = Chars(After(t), At(After(t), t.target).opaque)

\* C6: mxmlSetTextf(node, w, format, args...) leaves the text node with the
\* string and whitespace flag that mxmlSetText(node, w, s) leaves, s being the
\* printf-style rendering of format with args ("%d-%s" with (3, "x") stores
\* "3-x"); likewise mxmlSetOpaquef and mxmlSetOpaque.
C6_FormattedRendering ==
    /\ \A format \in FormatArgs \ {NULL} :
          Chars(Memory, Prerendered(format))
             = _mxml_strdupf(Chars(Memory, format), ArgsFor(format))
    /\ \A node \in NodeArgs, whitespace \in WhitespaceArgs,
          format \in FormatArgs \ {NULL}, ub \in UB :
          SameText(mxmlSetTextf(Memory, node, whitespace, format,
                                ArgsFor(format), ub),
                   mxmlSetText(Memory, node, whitespace,
                               Prerendered(format), "same"))
    /\ \A node \in NodeArgs, format \in FormatArgs \ {NULL}, ub \in UB :
          SameOpaque(mxmlSetOpaquef(Memory, node, format, ArgsFor(format), ub),
                     mxmlSetOpaque(Memory, node, Prerendered(format), "same"))

(***************************************************************************)
(* C7                                                                      *)
(***************************************************************************)
\* C7: mxmlSetUserData returns 0 on every non-null node of any kind and -1
\* only on the null node, does not descend to the first child, frees no
\* string, invokes no destructor, and changes only the user data of the node.
C7_UserDataNoOwnership ==
    \A node \in NodeArgs, data \in UserArgs \cup {UserPtr(2)} :
        LET r == mxmlSetUserData(Memory, node, data)
        IN /\ r.ret = (IF node = NULL THEN -1 ELSE 0)
           /\ r.target = node
           /\ r.freed = <<>>
           /\ r.calls = <<>>
           /\ r.heap = heap
           /\ r.destroyed = destroyed
           /\ r.nodes = IF node = NULL THEN nodes
                        ELSE [nodes EXCEPT ![node[2]].user_data = data]

\* mxmlSetUserData has just set the user data of an element and left alone
\* its first child, a custom node that holds a handle and a destructor
C7_Witness ==
    /\ last.op = "mxmlSetUserData"
    /\ last.ret = 0
    /\ last.node = NodePtr(1)
    /\ nodes[1].user_data = UserPtr(1)
    /\ Wraps(MXML_CUSTOM)
    /\ nodes[2].user_data = NULL
    /\ nodes[2].data # NULL
    /\ nodes[2].destroy # NULL
    /\ destroyed[nodes[2].data[2]] = 0

(***************************************************************************)
(* C8                                                                      *)
(***************************************************************************)
\* the calls of mxmlSetText and mxmlSetTextf with a null string or format, as
\* [r, whitespace], r the result and whitespace the flag supplied
NullStringCalls ==
    {[r |-> mxmlSetText(Memory, node, whitespace, NULL, ub),
      whitespace |-> whitespace] :
        node \in NodeArgs, whitespace \in WhitespaceArgs, ub \in UB}
    \cup {[r |-> mxmlSetTextf(Memory, node, whitespace, NULL, <<>>, ub),
           whitespace |-> whitespace] :
        node \in NodeArgs, whitespace \in WhitespaceArgs, ub \in UB}

OnTextNode(r) == r.target # NULL /\ At(Memory, r.target).type = MXML_TEXT

StringKept(r) ==
    /\ At(After(r), r.target).string = At(Memory, r.target).string
    /\ r.heap = heap

\* C8 as stated: mxmlSetText or mxmlSetTextf called on a text node (directly
\* or through its wrapping element) with a null string or format fails, yet
\* the node's whitespace flag takes the supplied value; the string is kept.
C8_AsStated ==
    \A c \in NullStringCalls :
        OnTextNode(c.r) =>
           /\ c.r.ret = -1
           /\ At(After(c.r), c.r.target).whitespace = c.whitespace
           /\ StringKept(c.r)

\* C8, amended: such a call fails and leaves both the whitespace flag and
\* the string of the text node as they were.
C8_NullStringKeepsFlag ==
    \A c \in NullStringCalls :
        OnTextNode(c.r) =>
           /\ c.r.ret = -1
           /\ At(After(c.r), c.r.target).whitespace
                 = At(Memory, c.r.target).whitespace
           /\ StringKept(c.r)

\* mxmlSetTextf has just failed on a text node, reached through its element,
\* that holds a string and a flag an earlier call set: the format was null
C8_Witness ==
    /\ last.op = "mxmlSetTextf"
    /\ last.ret = -1
    /\ last.node = NodePtr(1)
    /\ last.target = NodePtr(2)
    /\ nodes[2].type = MXML_TEXT
    /\ nodes[2].whitespace = 1
    /\ nodes[2].string # NULL

(***************************************************************************)
(* C9                                                                      *)
(***************************************************************************)
\* the calls of the setters that may descend, as [node, r, type]: the node
\* supplied, the result, and the type the setter is for
TypedCalls ==
    {[node |-> node, type |-> MXML_CUSTOM,
      r |-> mxmlSetCustom(Memory, node, data, destroy)] :
        node \in NodeArgs, data \in DataArgs, destroy \in DestroyArgs}
    \cup {[node |-> node, type |-> MXML_INTEGER,
           r |-> mxmlSetInteger(Memory, node, integer)] :
        node \in NodeArgs, integer \in IntArgs}
    \cup {[node |-> node, type |-> MXML_OPAQUE,
           r |-> mxmlSetOpaque(Memory, node, opaque, ub)] :
        node \in NodeArgs, opaque \in OpaqueArgs, ub \in UB}
    \cup {[node |-> node, type |-> MXML_OPAQUE,
           r |-> mxmlSetOpaquef(Memory, node, format, ArgsFor(format), ub)] :
        node \in NodeArgs, format \in FormatArgs, ub \in UB}
    \cup {[node |-> node, type |-> MXML_TEXT,
           r |-> mxmlSetText(Memory, node, whitespace, string, ub)] :
        node \in NodeArgs, whitespace \in WhitespaceArgs,
        string \in StringArgs, ub \in UB}
    \cup {[node |-> node, type |-> MXML_TEXT,
           r |-> mxmlSetTextf(Memory, node, whitespace, format,
                              ArgsFor(format), ub)] :
        node \in NodeArgs, whitespace \in WhitespaceArgs,
        format \in FormatArgs, ub \in UB}

CDATACalls ==
    {[node |-> node, r |-> mxmlSetCDATA(Memory, node, data, ub)] :
        node \in NodeArgs, data \in CDATAArgs, ub \in UB}

ElementCalls ==
    {[node |-> node, r |-> mxmlSetElement(Memory, node, name, ub)] :
        node \in NodeArgs, name \in NameArgs, ub \in UB}

IsElement(node) == node # NULL /\ At(Memory, node).type = MXML_ELEMENT

HasChildOfType(node, type) ==
    At(Memory, node).child # NULL
    /\ At(Memory, At(Memory, node).child).type = type

\* the call acted on the first child when descends holds and on the supplied
\* node otherwise, and failed when the node it acted on is not of the kind
ActsOn(c, descends, rightKind(_)) ==
    /\ c.r.target = IF descends THEN At(Memory, c.node).child ELSE c.node
    /\ (c.r.target = NULL \/ ~rightKind(c.r.target)) => c.r.ret = -1

\* mxmlSetCDATA descends exactly from an element without CDATA name to a
\* first child with one; mxmlSetElement never descends
CDATAAndElementRule ==
    /\ \A c \in CDATACalls :
          ActsOn(c,
                 IsElement(c.node) /\ ~IsCDATA(Memory, c.node)
                    /\ HasCDATAChild(Memory, c.node),
                 LAMBDA n : IsCDATA(Memory, n))
    /\ \A c \in ElementCalls :
          ActsOn(c, FALSE, LAMBDA n : At(Memory, n).type = MXML_ELEMENT)

\* C9 as stated: each of the setters with a first-child descent retargets to
\* the first child exactly when the supplied node is an element whose name is
\* not a CDATA marker and the child has the setter's kind; otherwise it acts
\* on the supplied node and fails if that is not of the kind.
C9_AsStated ==
    /\ CDATAAndElementRule
    /\ \A c \in TypedCalls :
          ActsOn(c,
                 IsElement(c.node) /\ ~IsCDATA(Memory, c.node)
                    /\ HasChildOfType(c.node, c.type),
                 LAMBDA n : At(Memory, n).type = c.type)

\* C9, amended: mxmlSetCDATA as stated; mxmlSetCustom, mxmlSetInteger,
\* mxmlSetOpaque, mxmlSetOpaquef, mxmlSetText and mxmlSetTextf retarget to the
\* first child exactly when the supplied node is an element, whatever its
\* name, and the child has the setter's kind.
C9_TraversalRule ==
    /\ CDATAAndElementRule
    /\ \A c \in TypedCalls :
          ActsOn(c,
                 IsElement(c.node) /\ HasChildOfType(c.node, c.type),
                 LAMBDA n : At(Memory, n).type = c.type)

\* mxmlSetInteger, called on an element with a CDATA name, has just set the
\* integer of its first child
C9_Witness ==
    /\ last.op = "mxmlSetInteger"
    /\ last.ret = 0
    /\ last.node = NodePtr(1)
    /\ last.target = NodePtr(2)
    /\ IsCDATA(Memory, NodePtr(1))
    /\ nodes[2].integer = 7

(***************************************************************************)
(* C10                                                                     *)
(***************************************************************************)
\* C10: a successful call never leaves its target holding a custom handle
\* that a destructor has had, and never reads a string it has freed, also
\* when the argument is the pointer the node already holds.
C10_NoReleasedPayload ==
    \A r \in StringCalls \cup FormatCalls \cup CustomCalls :
        r.ret = 0 =>
           /\ ~r.uaf
           /\ At(After(r), r.target).data # NULL =>
                 r.destroyed[At(After(r), r.target).data[2]] = 0

====
